---------------------------- MODULE Spec2Model ----------------------------
(***************************************************************************)
(* A model of the halt crate: the tri-state Notify (a status behind a      *)
(* mutex, with a condition variable), the Remote handles that write it,    *)
(* the Halt wrapper whose iterator/reader/writer adapters wait on it       *)
(* (src/src/lib.rs), and the Worker thread that gates a task queue with it *)
(* (src/src/worker.rs).                                                    *)
(*                                                                         *)
(* One behaviour is one program: either a Halt wrapper driven by a         *)
(* consumer thread and controlled through Remote clones (sys = "halt"), or *)
(* a Worker with its execution thread and the threads that call it         *)
(* (sys = "worker").                                                       *)
(***************************************************************************)
EXTENDS Integers, Sequences, FiniteSets, TLC

\* ------------------------------------------------------------------ bounds
\* Elements of the wrapped iterator, 0 .. MaxItems-1.
MaxItems == 2
\* Bytes the wrapped reader/writer transfers per call (the caller's buffer).
BufLen == 1

\* Tasks submitted to the Worker in one behaviour, numbered 1 .. MaxTasks in
\* the order of their run calls.
MaxTasks == 2

\* The clones of the Remote, each used by a thread of its own; for a Worker,
\* the threads that call its methods through a shared reference.
Remotes == {"r1", "r2"}

Tasks == 1 .. MaxTasks

\* What the closure of task t returns: a value of its own, so that a result
\* can be told from any other task's (the first task returns 21 * 2).
TaskValue(t) == 21 * 2 + (t - 1)

Mutators == {"pause", "resume", "stop"}
Predicates == {"is_running", "is_paused", "is_stopped"}
AdapterOps == {"next", "next_back", "read", "write"}

VARIABLES
    sys,        \* which program this behaviour is: "halt" or "worker"
    state,      \* Notify.state: the status behind the mutex: "Running", "Paused",
                \* "Stopped", and for a Worker also "Done"
    owner,      \* the mutex: "none", or "ctl" while the controlled thread holds its guard
    poisoned,   \* the mutex is poisoned (a thread panicked holding its guard)
    alive,      \* the Halt, sole lasting owner of the Arc<Notify>, still exists
    pc,         \* the controlled thread's position
    rop,        \* per handle thread: the call it is in, between upgrade() and
                \* lock() ("none" when it is in no call)
    hop,        \* the adapter call in progress ("none" between calls)
    inner,      \* the wrapped iterator, a range [lo, hi)
    wlive,      \* the Worker value: "live", "dropping" (Drop is inside done()), "dropped"
    rx,         \* the task queue's Receiver still exists (the thread has not exited)
    queue,      \* the task queue: submitted tasks not yet dequeued, oldest first
    ntasks,     \* run calls made so far
    tstat,      \* per task: "none", "queued", "taken", "running", "done",
                \* "skipped", "dropped", "panicked", "refused"
    cur,        \* the task the thread has dequeued (0: none)
    chan,       \* per task: the buffer of its result channel (capacity 1)
    got,        \* per task: what the caller has received from its result channel
    obs,        \* observations of the run (history; the program does not read them)
    ev          \* what the step that led to this state returned to its caller

haltVars == <<hop, inner>>

taskVars == <<queue, ntasks, tstat, cur, chan, got>>

workerVars == <<wlive, rx, queue, ntasks, tstat, cur, chan, got>>

vars == <<sys, state, owner, poisoned, alive, pc, rop, hop, inner,
          wlive, rx, queue, ntasks, tstat, cur, chan, got, obs, ev>>

\* ------------------------------------------------------------ Notify, Arc

\* lib.rs:104-112: a new Notify is Running.
NotifyDefault == "Running"

\* Arc's strong count: the Halt's own reference plus the temporary references
\* that handle calls hold between upgrade() and their return.
StrongCount ==
    (IF alive THEN 1 ELSE 0) + Cardinality({r \in Remotes : rop[r] # "none"})
    + (IF wlive = "dropping" THEN 1 ELSE 0)

\* A handle that takes the Notify for alive without looking.
UpgradeUnchecked == TRUE

\* Weak::upgrade succeeds exactly while a strong reference exists.
Upgrade == StrongCount > 0

\* A set_and_notify that wakes the waiter for resume only, not for stop.
NeedToNotifyOnResume(old, new) == old = "Paused" /\ new = "Running"

\* A set_and_notify that signals on every change of status.
NeedToNotifyOnChange(old, new) == old # new

\* lib.rs:181: notify only when leaving Paused.
NeedToNotify(old, new) == old = "Paused" /\ old # new

\* A stop that nothing undoes.
NextStatusSticky(old, new) == IF old = "Stopped" THEN old ELSE new

\* lib.rs:182: the write: the status becomes the one asked for, whatever it was.
NextStatus(old, new) == new

\* A signal that reaches no waiter.
NotifyNone(p) == p

\* Condvar::notify_all: the controlled thread, if parked, is woken and will
\* re-acquire the mutex.
NotifyAll(p) == IF p = "parked" THEN "woken" ELSE p

\* Predicates that read the status through a poisoned lock.
NotifyIsRecovered(which) ==
    CASE which = "is_paused" -> state = "Paused"
      [] which = "is_running" -> state = "Running"
      [] which = "is_stopped" -> state = "Stopped"

\* lib.rs:78-102: Notify::is_paused / is_running / is_stopped under the lock;
\* a poisoned lock answers false.
NotifyIs(which) ==
    IF poisoned THEN FALSE
    ELSE CASE which = "is_paused" -> state = "Paused"
           [] which = "is_running" -> state = "Running"
           [] which = "is_stopped" -> state = "Stopped"

\* The status a mutator asks for.
Target(op) ==
    CASE op = "pause" -> "Paused"
      [] op = "resume" -> "Running"
      [] op = "stop" -> "Stopped"

Bool(b) == IF b THEN "true" ELSE "false"

\* ------------------------------------------------------------ observations

\* obs.since: the status that has held without change since the adapter call
\*            in progress began ("changed" once a handle wrote another one,
\*            and between calls).
\* obs.parked: the call in progress has parked on the condition variable.
\* obs.front / obs.back: elements the adapter has yielded from either end.
\* obs.everStopped: some handle has applied stop.
\* obs.gone[r]: the Halt was already destroyed when r's call in progress began.
\* obs.dropAt: what the Worker's thread was doing when the Worker was dropped.
\* obs.panicked: a task has panicked.
\* obs.stopAt: the task that was running when the stop call in progress
\*             began (0: no stop call in progress began during a task).
\* obs.held: the tasks that run accepted while the status was Paused or the
\*           thread was running an earlier task, and that have not run yet.
ObsInit ==
    [since |-> "changed", parked |-> FALSE, front |-> <<>>, back |-> <<>>,
     everStopped |-> FALSE, gone |-> [r \in Remotes |-> FALSE],
     dropAt |-> "none", panicked |-> FALSE, stopAt |-> 0,
     held |-> {}]

\* ev: the return of a call, visible in the state its last step leads to.
\*   kind: "handle" (a Remote call returned), "adapter" (an adapter call
\*         returned), "run" (Worker::run returned; val is the task),
\*         "recv" (a result receiver's recv() returned: Ok(val), or Err for
\*         the task val),
\*         "none" (the step returned nothing)
\*   op, res, val: the call and its result (val: Some(val) / Ok(val))
\*   gone, freed: the Halt was destroyed / the Notify released when the call began
\*   notified: the call called notify_all
\*   since, parked: obs.since and obs.parked of the adapter call
\*   delegated: the adapter call called into the wrapped object
NoEvent ==
    [kind |-> "none", op |-> "none", res |-> "none", val |-> 0,
     gone |-> FALSE, freed |-> FALSE, notified |-> FALSE,
     since |-> "none", parked |-> FALSE, delegated |-> FALSE]

HandleEvent(op, res, gone, freed, notified) ==
    [NoEvent EXCEPT !.kind = "handle", !.op = op, !.res = res, !.gone = gone,
                    !.freed = freed, !.notified = notified]

RunEvent(t, res) == [NoEvent EXCEPT !.kind = "run", !.res = res, !.val = t]

AdapterEvent(op, r, delegated) ==
    [NoEvent EXCEPT !.kind = "adapter", !.op = op, !.res = r.kind, !.val = r.val,
                    !.since = obs.since, !.parked = obs.parked,
                    !.delegated = delegated]

\* ------------------------------------------------------------------- Init

Init ==
    /\ sys \in {"halt", "worker"}
    /\ state = NotifyDefault
    /\ owner = "none"
    /\ poisoned = FALSE
    /\ alive = TRUE
    /\ pc = IF sys = "halt" THEN "idle" ELSE "recv"
    /\ rop = [r \in Remotes |-> "none"]
    /\ hop = "none"
    /\ inner = [lo |-> 0, hi |-> MaxItems]
    /\ wlive = "live"
    /\ rx = TRUE
    /\ queue = <<>>
    /\ ntasks = 0
    /\ tstat = [t \in Tasks |-> "none"]
    /\ cur = 0
    /\ chan = [t \in Tasks |-> <<>>]
    /\ got = [t \in Tasks |-> <<>>]
    /\ obs = ObsInit
    /\ ev = NoEvent

\* ------------------------------------------------------------ Remote (lib.rs)

\* What a mutator returns: lib.rs:48 Result<(), Invalid>; the Worker's
\* pause/resume/stop (worker.rs:87-99) hand on their Remote's answer as a bool.
MutatorResult(ok) ==
    IF sys = "worker" THEN Bool(ok) ELSE IF ok THEN "Ok" ELSE "Invalid"

\* Who may begin a handle call: any holder of a Remote clone; for a Worker,
\* whose Remote is private (worker.rs:12), a caller of the live Worker.
MayCall == sys = "worker" => wlive = "live"

\* lib.rs:178 / 152-153: the call begins with Weak::upgrade. A failed upgrade
\* ends the call at once: Err(Invalid) for a mutator, false for a predicate.
RemoteBegin(r, op) ==
    /\ MayCall
    /\ rop[r] = "none"
    /\ IF Upgrade
       THEN /\ rop' = [rop EXCEPT ![r] = op]
            /\ obs' = [obs EXCEPT
                         !.gone[r] = ~alive,
                         !.stopAt = IF op = "stop" /\ pc = "task" THEN cur ELSE @]
            /\ ev' = NoEvent
       ELSE /\ ev' = HandleEvent(op, IF op \in Mutators THEN MutatorResult(FALSE) ELSE "false",
                                 ~alive, TRUE, FALSE)
            /\ UNCHANGED <<rop, obs>>
    /\ UNCHANGED <<sys, state, owner, poisoned, alive, pc, haltVars, workerVars>>

\* lib.rs:176-187: set_and_notify's critical section, then the temporary Arc
\* is dropped. A poisoned lock gives Err(Invalid) and writes nothing.
SetAndNotify(r) ==
    /\ rop[r] \in Mutators
    /\ owner = "none"
    /\ rop' = [rop EXCEPT ![r] = "none"]
    /\ IF poisoned
       THEN /\ ev' = HandleEvent(rop[r], MutatorResult(FALSE), obs.gone[r], FALSE, FALSE)
            /\ obs' = [obs EXCEPT
                         !.gone[r] = FALSE,
                         !.stopAt = IF rop[r] = "stop" THEN 0 ELSE @]
            /\ UNCHANGED <<state, pc>>
       ELSE /\ state' = NextStatus(state, Target(rop[r]))
            /\ pc' = IF NeedToNotify(state, Target(rop[r])) THEN NotifyAll(pc) ELSE pc
            /\ ev' = HandleEvent(rop[r], MutatorResult(TRUE), obs.gone[r], FALSE,
                                 NeedToNotify(state, Target(rop[r])))
            /\ obs' = [obs EXCEPT
                         !.gone[r] = FALSE,
                         !.since = IF state' = state THEN @ ELSE "changed",
                         !.everStopped = @ \/ Target(rop[r]) = "Stopped",
                         !.stopAt = IF rop[r] = "stop" THEN 0 ELSE @]
    /\ UNCHANGED <<sys, owner, poisoned, alive, haltVars, workerVars>>

\* lib.rs:149-174: Remote::is_paused / is_running / is_stopped after a
\* successful upgrade: the Notify's predicate under the lock.
RemoteIs(r) ==
    /\ rop[r] \in Predicates
    /\ owner = "none"
    /\ rop' = [rop EXCEPT ![r] = "none"]
    /\ ev' = HandleEvent(rop[r], Bool(NotifyIs(rop[r])), obs.gone[r], FALSE, FALSE)
    /\ obs' = [obs EXCEPT !.gone[r] = FALSE]
    /\ UNCHANGED <<sys, state, owner, poisoned, alive, pc, haltVars, workerVars>>

\* ------------------------------------------------------- Halt adapters (lib.rs)

\* What a stopped adapter returns instead of calling the wrapped object:
\* lib.rs:295, 307 (None) and lib.rs:326, 338 (Ok(0)).
ShortCircuit(op) ==
    IF op \in {"next", "next_back"} THEN [kind |-> "None", val |-> 0]
    ELSE [kind |-> "Ok", val |-> 0]

\* The wrapped object's answer: a range iterator from either end, or a
\* reader/writer that transfers the whole buffer.
InnerResult(op) ==
    CASE op = "next" ->
           IF inner.lo < inner.hi THEN [kind |-> "Some", val |-> inner.lo]
           ELSE [kind |-> "None", val |-> 0]
      [] op = "next_back" ->
           IF inner.lo < inner.hi THEN [kind |-> "Some", val |-> inner.hi - 1]
           ELSE [kind |-> "None", val |-> 0]
      [] OTHER -> [kind |-> "Ok", val |-> BufLen]

InnerAfter(op) ==
    CASE op = "next" /\ inner.lo < inner.hi -> [inner EXCEPT !.lo = @ + 1]
      [] op = "next_back" /\ inner.lo < inner.hi -> [inner EXCEPT !.hi = @ - 1]
      [] OTHER -> inner

\* The observations of an adapter call end with it.
ObsReturn(o) == [o EXCEPT !.since = "changed", !.parked = FALSE]

\* lib.rs:292, 304, 323, 335: the consumer thread calls an adapter method.
Call(op) ==
    /\ sys = "halt"
    /\ pc = "idle"
    /\ hop' = op
    /\ pc' = "wait_lock"
    /\ obs' = [obs EXCEPT !.since = state, !.parked = FALSE]
    /\ ev' = NoEvent
    /\ UNCHANGED <<sys, state, owner, poisoned, alive, rop, inner, workerVars>>

\* lib.rs:259: wait_if_paused takes the lock; a poisoned lock ends the wait
\* with Err(Invalid), which the adapters discard.
WaitLock ==
    /\ sys = "halt"
    /\ pc = "wait_lock"
    /\ owner = "none"
    /\ IF poisoned
       THEN pc' = "is_stopped" /\ owner' = owner
       ELSE pc' = "wait_check" /\ owner' = "ctl"
    /\ ev' = NoEvent
    /\ UNCHANGED <<sys, state, poisoned, alive, rop, haltVars, workerVars, obs>>

\* A wait_if_paused that never waits.
WaitIfPausedSkips == "is_stopped"

\* lib.rs:260-263: the loop test under the lock. Paused: Condvar::wait
\* releases the mutex and parks in one step. Otherwise the guard is dropped
\* and wait_if_paused returns Ok(()).
WaitIfPausedTest ==
    IF state = "Paused" THEN "parked" ELSE "is_stopped"

WaitCheck ==
    /\ sys = "halt"
    /\ pc = "wait_check"
    /\ pc' = WaitIfPausedTest
    /\ owner' = "none"
    /\ obs' = [obs EXCEPT !.parked = @ \/ pc' = "parked"]
    /\ ev' = NoEvent
    /\ UNCHANGED <<sys, state, poisoned, alive, rop, haltVars, workerVars>>

\* Condvar::wait may return without a notification.
SpuriousWake ==
    /\ pc = "parked"
    /\ pc' = "woken"
    /\ ev' = NoEvent
    /\ UNCHANGED <<sys, state, owner, poisoned, alive, rop, haltVars, workerVars, obs>>

\* lib.rs:261: a woken waiter re-acquires the mutex before wait returns.
Reacquire ==
    /\ sys = "halt"
    /\ pc = "woken"
    /\ owner = "none"
    /\ IF poisoned
       THEN pc' = "is_stopped" /\ owner' = owner
       ELSE pc' = "wait_check" /\ owner' = "ctl"
    /\ ev' = NoEvent
    /\ UNCHANGED <<sys, state, poisoned, alive, rop, haltVars, workerVars, obs>>

\* An adapter that asks the wrong predicate.
StopTestPaused == NotifyIs("is_paused")

\* lib.rs:294, 306, 325, 337: the adapter's test, self.is_stopped().
StopTest == NotifyIs("is_stopped")

\* lib.rs:294, 306, 325, 337: is_stopped() takes the lock a second time.
\* Stopped: the adapter returns its empty value. Otherwise it goes on to call
\* the wrapped object.
IsStopped ==
    /\ sys = "halt"
    /\ pc = "is_stopped"
    /\ owner = "none"
    /\ IF StopTest
       THEN /\ pc' = "idle"
            /\ hop' = "none"
            /\ ev' = AdapterEvent(hop, ShortCircuit(hop), FALSE)
            /\ obs' = ObsReturn(obs)
       ELSE /\ pc' = "delegate"
            /\ ev' = NoEvent
            /\ UNCHANGED <<hop, obs>>
    /\ UNCHANGED <<sys, state, owner, poisoned, alive, rop, inner, workerVars>>

\* lib.rs:297, 309, 328, 340: the call into the wrapped object, whose answer
\* the adapter returns.
Delegate ==
    /\ sys = "halt"
    /\ pc = "delegate"
    /\ pc' = "idle"
    /\ hop' = "none"
    /\ ev' = AdapterEvent(hop, InnerResult(hop), TRUE)
    /\ inner' = InnerAfter(hop)
    /\ obs' = [ObsReturn(obs) EXCEPT
                 !.front = IF hop = "next" /\ InnerResult(hop).kind = "Some"
                           THEN Append(@, InnerResult(hop).val) ELSE @,
                 !.back = IF hop = "next_back" /\ InnerResult(hop).kind = "Some"
                          THEN Append(@, InnerResult(hop).val) ELSE @]
    /\ UNCHANGED <<sys, state, owner, poisoned, alive, rop, workerVars>>

\* lib.rs:198-201: the Halt goes out of scope on the thread that owns it; its
\* Arc<Notify> is dropped with it.
DropHalt ==
    /\ sys = "halt"
    /\ pc = "idle"
    /\ alive
    /\ alive' = FALSE
    /\ pc' = "dropped"
    /\ ev' = NoEvent
    /\ UNCHANGED <<sys, state, owner, poisoned, rop, haltVars, workerVars, obs>>

\* ------------------------------------------------------- Worker (worker.rs)

\* A loop without the Done test: Done is handled as Stopped is.
GateDoneSkips(s) ==
    CASE s \in {"Stopped", "Done"} -> "skip"
      [] OTHER -> "run"

\* A loop without the Stopped test: only Done keeps a task from running.
GateStopRuns(s) ==
    CASE s = "Done" -> "exit"
      [] OTHER -> "run"

\* worker.rs:42-52: what the thread does with a dequeued task on the status
\* it finds under the guard that wait_while_paused returned.
Gate(s) ==
    CASE s = "Stopped" -> "skip"
      [] s = "Done" -> "exit"
      [] OTHER -> "run"

\* A wrapper that sends every task's value into one channel, the first task's.
ForwardShared(t) == [chan EXCEPT ![1] = Append(@, TaskValue(t))]

\* worker.rs:73-76: the submitted closure's wrapper sends the closure's value
\* into the task's own result channel (sync_channel(1): one send never blocks).
Forward(t) == [chan EXCEPT ![t] = Append(@, TaskValue(t))]

\* A thread that exits and leaves the queue, with the tasks in it, behind.
ExitThreadKeepsQueue(how) ==
    /\ pc' = "exited"
    /\ rx' = FALSE
    /\ alive' = FALSE
    /\ queue' = queue
    /\ cur' = 0
    /\ tstat' = [t \in Tasks |->
                   IF t = cur THEN how
                   ELSE IF tstat[t] = "queued" THEN "dropped" ELSE tstat[t]]

\* The thread's closure ends (worker.rs:37-54 returns or unwinds): the
\* Receiver and the tasks still queued are dropped, and so is the Halt. The
\* task in hand, if any, ends as `how`.
ExitThread(how) ==
    /\ pc' = "exited"
    /\ rx' = FALSE
    /\ alive' = FALSE
    /\ queue' = <<>>
    /\ cur' = 0
    /\ tstat' = [t \in Tasks |->
                   IF t = cur THEN how
                   ELSE IF tstat[t] = "queued" THEN "dropped" ELSE tstat[t]]

\* A run that reports success whatever became of the queue.
RunAcceptsAlways == TRUE

\* A submission that is accepted only by an idle thread.
RunAcceptsWhenIdle == rx /\ pc = "recv" /\ queue = <<>>

\* worker.rs:78: Sender::send succeeds exactly while the Receiver exists.
RunAccepts == rx

\* A queue that hands out the newest task first.
EnqueueFront(q, t) == <<t>> \o q

\* worker.rs:78: Sender::send puts the task at the back of the queue, from
\* whose front the thread's recv takes (worker.rs:38).
Enqueue(q, t) == Append(q, t)

\* worker.rs:64-79: run numbers the task, wraps it and sends it; a send on a
\* queue whose Receiver is gone fails, and run returns Err(SendError).
Run ==
    /\ sys = "worker"
    /\ wlive = "live"
    /\ ntasks < MaxTasks
    /\ ntasks' = ntasks + 1
    /\ IF RunAccepts
       THEN /\ queue' = Enqueue(queue, ntasks + 1)
            /\ tstat' = [tstat EXCEPT ![ntasks + 1] = "queued"]
            /\ ev' = RunEvent(ntasks + 1, "Ok")
            /\ obs' = [obs EXCEPT
                         !.held = IF state = "Paused" \/ pc = "task"
                                  THEN @ \cup {ntasks + 1} ELSE @]
       ELSE /\ queue' = queue
            /\ tstat' = [tstat EXCEPT ![ntasks + 1] = "refused"]
            /\ ev' = RunEvent(ntasks + 1, "Err")
            /\ obs' = obs
    /\ UNCHANGED <<sys, state, owner, poisoned, alive, pc, rop, haltVars,
                   wlive, rx, cur, chan, got>>

\* worker.rs:71-76: the sending side of task t's result channel is moved into
\* the task's wrapper, and lives as long as the wrapper does: in the queue,
\* or in the thread's hands (dequeued, or being run).
SenderLive(t) == cur = t \/ \E i \in 1 .. Len(queue) : queue[i] = t

\* worker.rs:78: the caller of run, given a Receiver, calls recv() on it. A
\* buffered value is returned; on an empty channel recv blocks while the
\* sending side exists and returns Err(RecvError) once it is gone.
TakeResult(t) ==
    /\ sys = "worker"
    /\ tstat[t] \notin {"none", "refused"}
    /\ IF chan[t] # <<>>
       THEN /\ got' = [got EXCEPT ![t] = Append(@, Head(chan[t]))]
            /\ chan' = [chan EXCEPT ![t] = Tail(@)]
            /\ ev' = [NoEvent EXCEPT !.kind = "recv", !.res = "Ok",
                                      !.val = Head(chan[t])]
       ELSE /\ ~SenderLive(t)
            /\ ev' = [NoEvent EXCEPT !.kind = "recv", !.res = "Err", !.val = t]
            /\ UNCHANGED <<got, chan>>
    /\ UNCHANGED <<sys, state, owner, poisoned, alive, pc, rop, haltVars,
                   wlive, rx, queue, ntasks, tstat, cur, obs>>

\* worker.rs:38: receiver.recv(). A queued task is dequeued; on an empty queue
\* the thread blocks until a task arrives, or, once the Sender is dropped
\* with the Worker, gets Err and leaves the loop.
WorkerRecv ==
    /\ sys = "worker"
    /\ pc = "recv"
    /\ IF queue # <<>>
       THEN /\ cur' = Head(queue)
            /\ queue' = Tail(queue)
            /\ tstat' = [tstat EXCEPT ![Head(queue)] = "taken"]
            /\ pc' = "wait_lock"
            /\ UNCHANGED <<rx, alive>>
       ELSE /\ wlive = "dropped"
            /\ ExitThread("none")
    /\ ev' = NoEvent
    /\ UNCHANGED <<sys, state, owner, poisoned, rop, haltVars, wlive, ntasks,
                   chan, got, obs>>

\* worker.rs:40: wait_while_paused takes the lock.
WorkerWaitLock ==
    /\ sys = "worker"
    /\ pc = "wait_lock"
    /\ owner = "none"
    /\ owner' = "ctl"
    /\ pc' = "wait_check"
    /\ ev' = NoEvent
    /\ UNCHANGED <<sys, state, poisoned, alive, rop, haltVars, workerVars, obs>>

\* worker.rs:40-52: wait_while_paused's loop test under the lock, and, once
\* the status is not Paused, the thread's choice under the guard `g` that the
\* wait returned. The guard lives to the end of the loop body: it is released
\* by `continue` and by `return`, and it is still held while task() runs.
WorkerAfterWait ==
    /\ sys = "worker"
    /\ pc = "wait_check"
    /\ IF state = "Paused"
       THEN /\ pc' = "parked"
            /\ owner' = "none"
            /\ UNCHANGED <<rx, alive, queue, cur, tstat>>
       ELSE CASE Gate(state) = "skip" ->
                   /\ pc' = "recv"
                   /\ owner' = "none"
                   /\ tstat' = [tstat EXCEPT ![cur] = "skipped"]
                   /\ cur' = 0
                   /\ UNCHANGED <<rx, alive, queue>>
              [] Gate(state) = "exit" ->
                   /\ ExitThread("dropped")
                   /\ owner' = "none"
              [] OTHER ->
                   /\ pc' = "task"
                   /\ owner' = owner
                   /\ tstat' = [tstat EXCEPT ![cur] = "running"]
                   /\ UNCHANGED <<rx, alive, queue, cur>>
    /\ ev' = NoEvent
    /\ UNCHANGED <<sys, state, poisoned, rop, haltVars, wlive, ntasks,
                   chan, got, obs>>

\* A woken wait_while_paused re-acquires the mutex before it tests again.
WorkerReacquire ==
    /\ sys = "worker"
    /\ pc = "woken"
    /\ owner = "none"
    /\ owner' = "ctl"
    /\ pc' = "wait_check"
    /\ ev' = NoEvent
    /\ UNCHANGED <<sys, state, poisoned, alive, rop, haltVars, workerVars, obs>>

\* worker.rs:52-53: task() returns: its wrapper has sent the value; the loop
\* body ends, which drops the guard.
TaskReturn ==
    /\ sys = "worker"
    /\ pc = "task"
    /\ chan' = Forward(cur)
    /\ tstat' = [tstat EXCEPT ![cur] = "done"]
    /\ cur' = 0
    /\ owner' = "none"
    /\ pc' = "recv"
    /\ obs' = [obs EXCEPT !.held = @ \ {cur}]
    /\ ev' = NoEvent
    /\ UNCHANGED <<sys, state, poisoned, alive, rop, haltVars, wlive, rx, queue,
                   ntasks, got>>

\* worker.rs:52: task() panics. Nothing catches it: the thread unwinds, which
\* drops the guard it holds (poisoning the mutex) and ends the closure.
TaskPanic ==
    /\ sys = "worker"
    /\ pc = "task"
    /\ poisoned' = TRUE
    /\ owner' = "none"
    /\ ExitThread("panicked")
    /\ obs' = [obs EXCEPT !.panicked = TRUE]
    /\ ev' = NoEvent
    /\ UNCHANGED <<sys, state, rop, haltVars, wlive, ntasks, chan, got>>

\* What the thread is doing, for the record of a drop.
Situation ==
    CASE pc \in {"parked", "woken"} -> "parked"
      [] pc = "task" -> "busy"
      [] pc = "exited" -> "exited"
      [] pc = "recv" /\ queue = <<>> -> "idle"
      [] state = "Stopped" -> "stopped_queued"
      [] state = "Running" -> "running_queued"
      [] OTHER -> "paused_queued"

\* A Worker with no Drop of its own: only its fields are dropped.
DropForgetsDone == FALSE

\* worker.rs:20: Drop for Worker calls self.remote.done().
DropCallsDone == TRUE

\* worker.rs:17-22: Drop for Worker calls remote.done(), which begins with
\* Weak::upgrade; if the thread's Halt is gone there is nothing to tell, and
\* the fields (the Sender among them) are dropped. Dropping needs the Worker
\* exclusively: no call on it is in progress.

DropBegin ==
    /\ sys = "worker"
    /\ wlive = "live"
    /\ \A r \in Remotes : rop[r] = "none"
    /\ wlive' = IF DropCallsDone /\ Upgrade THEN "dropping" ELSE "dropped"
    /\ obs' = [obs EXCEPT !.dropAt = Situation]
    /\ ev' = NoEvent
    /\ UNCHANGED <<sys, state, owner, poisoned, alive, pc, rop, haltVars, rx,
                   taskVars>>

\* Remote::done(): the status becomes Done under the lock, by the same
\* notifying write as pause/resume/stop; then Drop drops the fields.
DropDone ==
    /\ sys = "worker"
    /\ wlive = "dropping"
    /\ owner = "none"
    /\ wlive' = "dropped"
    /\ IF poisoned
       THEN UNCHANGED <<state, pc>>
       ELSE /\ state' = "Done"
            /\ pc' = IF NeedToNotify(state, "Done") THEN NotifyAll(pc) ELSE pc
    /\ ev' = NoEvent
    /\ UNCHANGED <<sys, owner, poisoned, alive, rop, haltVars, rx, taskVars, obs>>

\* ------------------------------------------------------------------- Next

\* A Remote call, by any of the handle threads.
RemoteStep ==
    \/ \E r \in Remotes, op \in Mutators \cup Predicates : RemoteBegin(r, op)
    \/ \E r \in Remotes : SetAndNotify(r)
    \/ \E r \in Remotes : RemoteIs(r)

\* The program of lib.rs: a Halt wrapper, its consumer thread, its Remotes.
HaltNext ==
    \/ RemoteStep
    \/ \E op \in AdapterOps : Call(op)
    \/ WaitLock
    \/ WaitCheck
    \/ SpuriousWake
    \/ Reacquire
    \/ IsStopped
    \/ Delegate
    \/ DropHalt

\* The program of worker.rs: a Worker, its thread, its callers.
WorkerNext ==
    \/ RemoteStep
    \/ Run
    \/ \E t \in Tasks : TakeResult(t)
    \/ WorkerRecv
    \/ WorkerWaitLock
    \/ WorkerAfterWait
    \/ SpuriousWake
    \/ WorkerReacquire
    \/ TaskReturn
    \/ TaskPanic
    \/ DropBegin
    \/ DropDone

Next == HaltNext \/ WorkerNext

Spec == Init /\ [][Next]_vars

HaltInit == Init /\ sys = "halt"

WorkerInit == Init /\ sys = "worker"

HaltSpec == HaltInit /\ [][HaltNext]_vars

WorkerSpec == WorkerInit /\ [][WorkerNext]_vars

\* ------------------------------------------------------------ scheduling

\* Every thread that can take a step eventually takes it: the controlled
\* thread (consumer or worker), the handle calls in progress and the drop in
\* progress. A running task is assumed to end (by returning, unless it
\* panics). Spurious wakeups and new calls are never forced.
CtlStep ==
    \/ WaitLock \/ WaitCheck \/ Reacquire \/ IsStopped \/ Delegate
    \/ WorkerRecv \/ WorkerWaitLock \/ WorkerAfterWait \/ WorkerReacquire
    \/ TaskReturn

Fairness ==
    /\ WF_vars(CtlStep)
    /\ \A r \in Remotes : WF_vars(SetAndNotify(r) \/ RemoteIs(r))
    /\ WF_vars(DropDone)

HaltFairSpec == HaltSpec /\ Fairness

WorkerFairSpec == WorkerSpec /\ Fairness

\* ------------------------------------------------------------------ claims

\* The controlled thread is parked on the condition variable, or woken and
\* not yet back under the lock.
Blocked == pc \in {"parked", "woken"}

\* C1: no missed wakeup. Under fair scheduling, whenever the consumer thread
\* is blocked in wait_if_paused and the status is not Paused (a handle has
\* resumed or stopped it since it observed Paused), the wait eventually ends,
\* unless the status is made Paused again first.
C1_NoMissedWakeup ==
    (sys = "halt" /\ Blocked /\ state # "Paused")
        ~> (~Blocked \/ state = "Paused")

\* C1 witness: the wait of the call in progress has returned after parking,
\* on a status other than Paused.
C1_Witness ==
    sys = "halt" /\ pc = "is_stopped" /\ obs.parked /\ state # "Paused"

\* C2 as stated: a handle call that begins after the Halt was destroyed
\* returns the invalid failure (a mutator) or false (a predicate).
C2_InvalidAfterDestroy ==
    (ev.kind = "handle" /\ ev.gone) => ev.res \in {"Invalid", "false"}

\* C2 amended: once the Halt is destroyed and the Notify is released (no
\* handle call that began earlier still holds its upgraded reference), every
\* handle call, on every clone, returns in its first step, Err(Invalid) from
\* a mutator and false from a predicate, and changes nothing: not the
\* status, not the lock, not the waiter, and no call is left in progress.
C2_InvalidOnceReleased ==
    [][(sys = "halt" /\ StrongCount = 0) =>
        /\ ev'.kind = "handle"
        /\ ev'.freed
        /\ ev'.res = (IF ev'.op \in Mutators THEN "Invalid" ELSE "false")
        /\ ~ev'.notified
        /\ UNCHANGED <<state, owner, poisoned, pc, rop, alive>>]_vars

\* C2 witness: a mutator was called on a released Notify and returned
\* Err(Invalid).
C2_Witness ==
    /\ sys = "halt" /\ ~alive
    /\ ev.kind = "handle" /\ ev.freed /\ ev.op = "stop" /\ ev.res = "Invalid"

\* C3: shutdown never leaves the thread parked. Under fair scheduling, and
\* with every running task ending, once the Worker has been dropped its
\* thread eventually exits, whatever it was doing when the drop found it:
\* parked in wait_while_paused, idle on an empty queue, or with tasks queued
\* under any status.
C3_ShutdownExits == (sys = "worker" /\ wlive = "dropped") ~> (pc = "exited")

\* C3 witness: the thread has exited after a drop that found it parked in
\* wait_while_paused.
C3_Witness ==
    sys = "worker" /\ pc = "exited" /\ wlive = "dropped" /\ obs.dropAt = "parked"

\* The values task t's result channel has carried: received and buffered.
Carried(t) == got[t] \o chan[t]

\* C4: worker round trip. A task's receiver yields the value that task
\* returned, once: a task's channel carries nothing but its own task's value,
\* at most one value ever, and exactly one once the task has run.
C4_RoundTrip ==
    sys = "worker" =>
        \A t \in Tasks :
            /\ Len(Carried(t)) <= 1
            /\ \A i \in 1 .. Len(Carried(t)) : Carried(t)[i] = TaskValue(t)
            /\ (tstat[t] = "done") <=> (Len(Carried(t)) = 1)

\* C4 witness: two tasks have run and each receiver has yielded its own
\* task's value.
C4_Witness ==
    /\ sys = "worker"
    /\ got[1] = <<TaskValue(1)>>
    /\ got[2] = <<TaskValue(2)>>

\* C5: queue closed. A run made after the thread has exited returns Err and
\* queues nothing; it is one step that needs nothing of the thread (run can
\* always be taken on a live Worker); and no task is ever queued without a
\* Receiver.
C5_QueueClosed ==
    sys = "worker" =>
        /\ (ev.kind = "run" /\ ~rx) =>
              (ev.res = "Err" /\ tstat[ev.val] = "refused")
        /\ ~rx => queue = <<>>
        /\ \A t \in Tasks : tstat[t] = "refused" =>
              (Carried(t) = <<>> /\ \A i \in 1 .. Len(queue) : queue[i] # t)
        /\ (wlive = "live" /\ ntasks < MaxTasks) => ENABLED Run

\* C5 witness: a run on a live Worker whose thread has exited returned Err.
C5_Witness ==
    /\ sys = "worker" /\ wlive = "live" /\ pc = "exited"
    /\ ev.kind = "run" /\ ev.res = "Err"

\* C6: stop yields empty, not blocked. An adapter call made while the status
\* is Stopped, and during which it stays Stopped, returns None (next,
\* next_back) or Ok(0) (read, write) without calling the wrapped object and
\* without ever parking.
C6_StopYieldsEmpty ==
    /\ (ev.kind = "adapter" /\ ev.since = "Stopped") =>
          /\ ~ev.delegated
          /\ ~ev.parked
          /\ ev.op \in {"next", "next_back"} => ev.res = "None"
          /\ ev.op \in {"read", "write"} => (ev.res = "Ok" /\ ev.val = 0)
    /\ (sys = "halt" /\ obs.since = "Stopped") =>
          pc \in {"wait_lock", "wait_check", "is_stopped"}

\* C6 witness: a write made under Stopped has returned.
C6_Witness == ev.kind = "adapter" /\ ev.since = "Stopped" /\ ev.op = "write"

\* C7: pause blocks, resume unblocks. An adapter call made while the status
\* is Paused neither calls the wrapped object nor returns for as long as the
\* status stays Paused; and whatever pauses happen, next yields the wrapped
\* range's elements in order from the front and next_back from the back,
\* none skipped and none twice.
C7_PauseBlocks ==
    sys = "halt" =>
        /\ obs.since = "Paused" =>
              pc \in {"wait_lock", "wait_check", "parked", "woken"}
        /\ ev.kind = "adapter" => ev.since # "Paused"
        /\ \A i \in 1 .. Len(obs.front) : obs.front[i] = i - 1
        /\ \A i \in 1 .. Len(obs.back) : obs.back[i] = MaxItems - i
        /\ Len(obs.front) + Len(obs.back) <= MaxItems
        /\ (ev.kind = "adapter" /\ ev.op = "next" /\ ev.res = "Some") =>
              ev.val = Len(obs.front) - 1

\* C7 witness: a next that parked has returned, after a resume, the second
\* element of the range.
C7_Witness ==
    /\ ev.kind = "adapter" /\ ev.op = "next" /\ ev.parked
    /\ ev.res = "Some" /\ ev.val = 1
    /\ state = "Running"

\* C8 as stated: no handle call and no drop in progress waits for a task to
\* finish: while one is between its upgrade and its lock, the mutex is not
\* held by a thread that is running a task.
C8_OnlyWaitBlocks ==
    (sys = "worker" /\ owner = "ctl" /\ pc = "task") =>
        /\ \A r \in Remotes : rop[r] = "none"
        /\ wlive # "dropping"

\* C9 as stated: a panic inside a task does not stop the worker: after it
\* the thread has not exited and run is still accepted.
C9_PanicKeepsWorker ==
    (sys = "worker" /\ obs.panicked) => (pc # "exited" /\ rx)

\* C10: stopped is not terminal. A resume that succeeds leaves the status
\* Running and a pause Paused, whatever the status was (Stopped included); an
\* adapter call made and completed under Running calls the wrapped object,
\* also after a stop; a call made under Paused waits; and the Worker's thread
\* exits only on the Worker's drop (or a task's panic), never on Stopped.
C10_StoppedNotTerminal ==
    /\ (ev.kind = "handle" /\ ev.res \in {"Ok", "true"}) =>
          /\ ev.op = "resume" => state = "Running"
          /\ ev.op = "pause" => state = "Paused"
          /\ ev.op = "stop" => state = "Stopped"
    /\ (ev.kind = "adapter" /\ ev.since = "Running") => ev.delegated
    /\ (sys = "halt" /\ obs.since = "Paused") =>
          pc \in {"wait_lock", "wait_check", "parked", "woken"}
    /\ (sys = "worker" /\ pc = "exited") => (wlive # "live" \/ obs.panicked)

\* C10 witness: after a stop, an adapter call made under Running has called
\* the wrapped object and returned an element.
C10_Witness ==
    /\ obs.everStopped
    /\ ev.kind = "adapter" /\ ev.since = "Running" /\ ev.delegated
    /\ ev.res = "Some"

\* C11: notify rule. A mutator that succeeds leaves the status it asked for,
\* whatever the status was; it signals exactly when the status before the
\* write was Paused and the one asked for is not; a signal wakes the parked
\* waiter, and a write that does not signal leaves the controlled thread
\* where it was (resume on Running, stop on Stopped, pause on Paused, and any
\* move between Running and Stopped).
C11_NotifyRule ==
    [][(ev'.kind = "handle" /\ ev'.op \in Mutators /\ ev'.res \in {"Ok", "true"}) =>
        /\ ev'.op = "pause" => state' = "Paused"
        /\ ev'.op = "resume" => state' = "Running"
        /\ ev'.op = "stop" => state' = "Stopped"
        /\ ev'.notified <=> (state = "Paused" /\ state' # "Paused")
        /\ (ev'.notified /\ pc = "parked") => pc' = "woken"
        /\ ~ev'.notified => pc' = pc]_vars

\* C11 witness: a stop written over Paused has signalled the parked waiter.
C11_Witness ==
    /\ ev.kind = "handle" /\ ev.op = "stop" /\ ev.notified
    /\ pc = "woken" /\ state = "Stopped"

\* C12 as stated: no handle write takes effect between the end of the wait
\* and the status check or the unit of work decided on it: whenever the
\* controlled side is about to perform a unit of work (the adapter has chosen
\* to call the wrapped object, the Worker's thread to run its task), the
\* status is not one on which the work should wait (Paused) or be skipped
\* (Stopped).
C12_NoRaceAfterWait ==
    /\ (sys = "halt" /\ pc = "delegate") => state \notin {"Paused", "Stopped"}
    /\ (sys = "worker" /\ pc = "task") => state \notin {"Paused", "Stopped"}

\* C13: the per-task state machine of the Worker's thread. A task starts
\* running only from the status test that follows the wait, as the task in
\* hand, on Running. The test that follows the wait parks the thread on
\* Paused; on Stopped it discards the task in hand, unrun, and goes back to
\* the queue, which it leaves as it is; on Done the thread exits and the task
\* in hand and every queued task are gone unrun; on Running the task runs.
\* Once the thread has exited no task is queued, in hand or running.
C13_TaskStateMachine ==
    [][sys = "worker" =>
        /\ \A t \in Tasks :
              (tstat'[t] = "running" /\ tstat[t] # "running") =>
                  (pc = "wait_check" /\ cur = t /\ state = "Running")
        /\ (pc = "wait_check" /\ pc' # pc) =>
              /\ state = "Paused" =>
                    (pc' = "parked" /\ cur' = cur /\ tstat' = tstat)
              /\ state = "Stopped" =>
                    /\ pc' = "recv" /\ rx' /\ queue' = queue
                    /\ tstat'[cur] = "skipped" /\ chan'[cur] = <<>>
              /\ state = "Done" =>
                    /\ pc' = "exited" /\ ~rx'
                    /\ tstat'[cur] = "dropped" /\ chan'[cur] = <<>>
              /\ state = "Running" =>
                    (pc' = "task" /\ cur' = cur /\ tstat'[cur] = "running")
        /\ pc' = "exited" =>
              \A t \in Tasks : tstat'[t] \notin {"queued", "taken", "running"}
        /\ \A t \in Tasks :
              tstat[t] \in {"skipped", "dropped"} => tstat'[t] = tstat[t]]_vars

\* C13 witness: the first task was discarded on Stopped and the thread went
\* on to the second, which is running.
C13_Witness ==
    sys = "worker" /\ tstat[1] = "skipped" /\ tstat[2] = "running"

\* C14: stop is task-boundary granular. While a task is running no step
\* changes the status or takes the task away: the task stays running until it
\* ends, and when it returns its value is in its result channel. A stop that
\* returns leaves every task, queue entry and result as it was. A task is
\* discarded only by the post-wait test finding Stopped, and no task starts
\* on Stopped.
C14_StopAtTaskBoundary ==
    [][sys = "worker" =>
        /\ pc = "task" =>
              /\ state' = state
              /\ \/ pc' = "task" /\ cur' = cur /\ tstat'[cur] = "running"
                 \/ tstat'[cur] = "done" /\ chan'[cur] = <<TaskValue(cur)>>
                 \/ tstat'[cur] = "panicked"
        /\ (ev'.kind = "handle" /\ ev'.op = "stop") =>
              (tstat' = tstat /\ queue' = queue /\ chan' = chan /\ got' = got)
        /\ \A t \in Tasks :
              /\ (tstat'[t] = "skipped" /\ tstat[t] # "skipped") =>
                    (state = "Stopped" /\ pc = "wait_check" /\ cur = t)
              /\ (tstat'[t] = "running" /\ tstat[t] # "running") =>
                    state # "Stopped"]_vars

\* C14 witness: a stop call began while the first task was running and is
\* still in progress; the task has run to its end and its caller has
\* received its value; the second task is queued.
C14_Witness ==
    /\ sys = "worker" /\ obs.stopAt = 1 /\ rop["r1"] = "stop"
    /\ tstat[1] = "done" /\ got[1] = <<TaskValue(1)>>
    /\ state = "Running" /\ tstat[2] = "queued"

\* C15: submission is asynchronous. On a live Worker whose thread has not
\* exited run can be taken at once and returns Ok, whatever the status is and
\* whatever the thread is doing (parked, waiting for the lock, running an
\* earlier task), and the task it returns for is the last in the queue. A
\* receive on the result channel of a task that is still queued, in hand or
\* running is what waits.
C15_RunNeverWaits ==
    sys = "worker" =>
        /\ (wlive = "live" /\ rx /\ ntasks < MaxTasks) =>
              ENABLED (Run /\ ev'.res = "Ok")
        /\ (ev.kind = "run" /\ rx) =>
              /\ ev.res = "Ok"
              /\ queue # <<>> /\ queue[Len(queue)] = ev.val
        /\ \A t \in Tasks :
              tstat[t] \in {"queued", "taken", "running"} => ~ENABLED TakeResult(t)

\* C15 witness: run returned Ok for the second task while the thread was
\* running the first.
C15_Witness ==
    /\ sys = "worker" /\ pc = "task" /\ cur = 1
    /\ ev.kind = "run" /\ ev.res = "Ok" /\ ev.val = 2

\* The calls in progress on the shared lock can each take their step.
NoCallWaits ==
    /\ owner = "none"
    /\ \A r \in Remotes :
          /\ rop[r] \in Mutators => ENABLED SetAndNotify(r)
          /\ rop[r] \in Predicates => ENABLED RemoteIs(r)
    /\ wlive = "dropping" => ENABLED DropDone

\* C16: lock poisoning is a local, fail-safe error. Once the lock is
\* poisoned, the status never changes again and nobody is signalled; every
\* handle call that returns, mutator or predicate, returns failure or false;
\* and no call waits: the lock is free and every call in progress can take
\* its step.
C16_PoisonFailsSafe ==
    /\ [](poisoned => NoCallWaits)
    /\ [][poisoned =>
            /\ poisoned'
            /\ state' = state
            /\ ev'.kind = "handle" =>
                  (ev'.res \in {"false", "Invalid"} /\ ~ev'.notified)]_vars

\* C16 witness: a stop that was waiting for the lock when a task panicked
\* found the lock poisoned and returned failure, the status left Running.
C16_Witness ==
    /\ poisoned /\ state = "Running"
    /\ ev.kind = "handle" /\ ev.op = "stop" /\ ev.res = "false" /\ ~ev.freed

\* C17: parked implies paused. Whenever the controlled thread is parked on
\* the condition variable with no wakeup pending for it, the status is
\* Paused.
C17_ParkedImpliesPaused == pc = "parked" => state = "Paused"

\* C17 witness: a resume written while the waiter was parked has left it a
\* pending wakeup: the status is Running and the waiter is woken, not parked.
C17_Witness ==
    /\ sys = "halt" /\ pc = "woken" /\ state = "Running"
    /\ ev.kind = "handle" /\ ev.op = "resume" /\ ev.notified

\* C18: each task runs at most once, one at a time, in submission order.
\* Tasks are numbered in the order their run calls enqueued them. At any time
\* at most one task is in the thread's hands and no task is twice in the
\* queue. A task is dequeued only from the queue, starts only after being
\* dequeued, and when it starts no other task is running and no task
\* enqueued after it has been dequeued; once running it only ends, and what
\* has ended, or was discarded or refused, stays so.
C18_OnceInOrder ==
    /\ [](sys = "worker" =>
            /\ Cardinality({t \in Tasks : tstat[t] \in {"taken", "running"}}) <= 1
            /\ \A i, j \in 1 .. Len(queue) : queue[i] = queue[j] => i = j)
    /\ [][sys = "worker" =>
            \A t \in Tasks :
                /\ (tstat'[t] = "taken" /\ tstat[t] # "taken") => tstat[t] = "queued"
                /\ (tstat'[t] = "running" /\ tstat[t] # "running") =>
                      /\ tstat[t] = "taken"
                      /\ \A u \in Tasks : u # t => tstat'[u] # "running"
                      /\ \A u \in Tasks : u > t => tstat[u] \in {"none", "queued"}
                /\ tstat[t] = "running" => tstat'[t] \in {"running", "done", "panicked"}
                /\ tstat[t] \in {"done", "panicked", "skipped", "dropped", "refused"} =>
                      tstat'[t] = tstat[t]]_vars

\* C18 witness: the first task has run to its end, its value still in its
\* result channel, and the second is running.
C18_Witness ==
    /\ sys = "worker" /\ tstat[1] = "done" /\ tstat[2] = "running"
    /\ ev.kind = "none" /\ got[1] = <<>> /\ chan[1] = <<TaskValue(1)>>

\* C19 as stated, in the form a finite run refutes: no task is lost by
\* pausing. While the Worker has not been dropped and no stop has ever been
\* applied, no task that run accepted under Paused, or while the thread was
\* busy, has been discarded unrun: each is still queued, in hand, running,
\* or has run.
C19_NoTaskLost ==
    (sys = "worker" /\ wlive = "live" /\ ~obs.everStopped) =>
        \A t \in obs.held : tstat[t] \in {"queued", "taken", "running", "done"}

\* C20: a receiver never waits forever on a task that will not run. Once an
\* accepted task has been discarded (skipped on Stopped, or dropped unrun
\* with the thread's exit), the sending side of its result channel is gone
\* and the channel is empty, so that a receive on it can be taken at once and
\* returns the disconnected error; and a receive returns that error only for
\* a task whose wrapper is gone.
C20_DiscardedDisconnects ==
    sys = "worker" =>
        /\ \A t \in Tasks :
              tstat[t] \in {"skipped", "dropped"} =>
                  /\ ~SenderLive(t)
                  /\ chan[t] = <<>>
                  /\ ENABLED (TakeResult(t) /\ ev'.res = "Err" /\ ev'.val = t)
        /\ (ev.kind = "recv" /\ ev.res = "Err") =>
              tstat[ev.val] \in {"skipped", "dropped", "panicked", "done"}

\* C20 witness: the receiver of a task that was skipped on Stopped has
\* returned the disconnected error.
C20_Witness ==
    /\ sys = "worker" /\ ev.kind = "recv" /\ ev.res = "Err"
    /\ tstat[ev.val] = "skipped"

=============================================================================
